---------------------------- MODULE Spec2Model ----------------------------
(***************************************************************************)
(* A model of QueryBuilder (src/unnamed/part_000): the fluent builder that *)
(* accumulates a MongoDB filter document, find options, populated fields   *)
(* and an aggregation pipeline, and the four asynchronous terminal         *)
(* operations (count, explain, execute, executeOne) that hand them to the  *)
(* Model / Collection collaborator.                                        *)
(*                                                                         *)
(* JavaScript objects are modelled as functions from their own property    *)
(* names to values; a property that is absent is a name outside DOMAIN.    *)
(* Field names are ordinary document fields (own properties only).         *)
(***************************************************************************)
EXTENDS Integers, Sequences, FiniteSets, TLC

VARIABLES
    filter,               \* this.filter
    options,              \* this.options   (limit, skip)
    populatedFields,      \* this.populatedFields
    session,              \* this.session
    sort,                 \* this.sort
    projection,           \* this.projection
    aggregationPipeline,  \* this.aggregationPipeline
    page,                 \* this.page
    pageSize,             \* this.pageSize
    objects,              \* the caller's ObjectId objects, by identity
    issued,               \* the native operations the last terminal call issued
    observed,             \* the arguments the operation in flight has read
    native,               \* how the collaborator's operation has fared so far
    promise,              \* the promise the last terminal call returned
    trace                 \* history: the calls made on the builder, in order

builder == <<filter, options, populatedFields, session, sort, projection,
             aggregationPipeline, page, pageSize>>

vars == <<filter, options, populatedFields, session, sort, projection,
          aggregationPipeline, page, pageSize, objects, issued, observed,
          native, promise, trace>>

(***************************************************************************)
(* Bounds.                                                                 *)
(***************************************************************************)
\* the number of calls made on one builder
MaxCalls == 3

(***************************************************************************)
(* JavaScript objects.                                                     *)
(***************************************************************************)
\* the object literal {}
EmptyDoc == <<>>

\* obj[key] = value
Put(doc, key, value) ==
    [k \in (DOMAIN doc) \cup {key} |-> IF k = key THEN value ELSE doc[k]]

\* !obj[key]: an absent property reads undefined, which is falsy; every value
\* the builder stores under a key is an object, which is truthy
Falsy(doc, key) == key \notin DOMAIN doc

\* a reference to one of the caller's ObjectId objects
Ref(id) == [ref |-> id]

IsRef(value) == "ref" \in DOMAIN value

(***************************************************************************)
(* Inputs.                                                                 *)
(***************************************************************************)
Fields == {"age", "_id"}

ObjectIds == {"X1", "X2"}

\* the keys of ComparisonOperators<T>
ComparisonOperators ==
    {"equal", "notEqual", "greaterThan", "greaterThanOrEqual", "lessThan",
     "lessThanOrEqual", "in", "notIn", "exists", "regex", "text"}

\* operator names that are not keys of the mapping table
UnknownOperators == {"between"}

Scalars == {18, 65}

\* the values a caller passes for an operator
ValuesFor(operator) ==
    CASE operator \in {"in", "notIn"} -> {<<18, 65>>}
      [] operator = "exists" -> {TRUE}
      [] operator = "regex" -> {"^a"}
      [] operator = "text" -> {"mongo"}
      [] OTHER -> Scalars

\* Filter<T[K]> conditions passed to not()
Conditions == {"$gt" :> 30}

\* Filter<T>[] lists passed to and(), or(), nor()
ConditionLists == {<<"age" :> ("$gt" :> 30)>>, <<"age" :> ("$lt" :> 5), "age" :> ("$gt" :> 30)>>}

(***************************************************************************)
(* Initial state: the field initialisers of the class.                     *)
(***************************************************************************)
Init ==
    /\ filter = EmptyDoc
    /\ options = EmptyDoc
    /\ populatedFields = <<>>
    /\ session = "null"
    /\ sort = EmptyDoc
    /\ projection = EmptyDoc
    /\ aggregationPipeline = <<>>
    /\ page = 1
    /\ pageSize = 10
    /\ objects = [id \in ObjectIds |-> [oid |-> id]]
    /\ issued = <<>>
    /\ observed = <<>>
    /\ native = [kind |-> "none"]
    /\ promise = [op |-> "none", state |-> "none"]
    /\ trace = <<>>

\* a method was called: record it in the history
Called(name, args) ==
    /\ Len(trace) < MaxCalls
    /\ trace' = Append(trace, [name |-> name, args |-> args])

(***************************************************************************)
(* Predicate accumulator.                                                  *)
(***************************************************************************)
\* the table with the token of greaterThan under greaterThanOrEqual
mongoOperatorMapMistyped ==
    [equal |-> "$eq", notEqual |-> "$ne", greaterThan |-> "$gt",
     greaterThanOrEqual |-> "$gt", lessThan |-> "$lt",
     lessThanOrEqual |-> "$lte", in |-> "$in", notIn |-> "$nin",
     exists |-> "$exists", regex |-> "$regex", text |-> "$text"]

mongoOperatorMap ==
    [equal |-> "$eq", notEqual |-> "$ne", greaterThan |-> "$gt",
     greaterThanOrEqual |-> "$gte", lessThan |-> "$lt",
     lessThanOrEqual |-> "$lte", in |-> "$in", notIn |-> "$nin",
     exists |-> "$exists", regex |-> "$regex", text |-> "$text"]

\* "Refine the value based on the operator": the casts change nothing, text
\* wraps the string
refinedValue(operator, value) ==
    IF operator = "text" THEN "$search" :> value ELSE value

\* obj = { [mongoOperator]: refinedValue }: the sub-document is replaced
assignOperatorAlone(doc, mongoOperator, value) == mongoOperator :> value

\* obj[mongoOperator] = refinedValue
assignOperator(doc, mongoOperator, value) == Put(doc, mongoOperator, value)

\* the field's entry is created anew also when it holds a negation wrapper
ensureFieldOverNegation(doc, field) ==
    IF Falsy(doc, field) \/ "$not" \in DOMAIN doc[field]
    THEN Put(doc, field, EmptyDoc)
    ELSE doc

\* line 62-64: the field's entry is created when the field reads falsy
ensureField(doc, field) ==
    IF Falsy(doc, field) THEN Put(doc, field, EmptyDoc) ELSE doc

\* where(field, operator, value): the object under the field is the caller's
\* ObjectId when whereId stored one, and the assignment then lands on it
where(field, operator, value) ==
    LET created == ensureField(filter, field)
        target == created[field]
        known == operator \in DOMAIN mongoOperatorMap
    IN  /\ Called("where", <<field, operator, value>>)
        /\ IF known /\ IsRef(target)
              THEN /\ filter' = created
                   /\ objects' = [objects EXCEPT ![target.ref] =
                          assignOperator(@, mongoOperatorMap[operator],
                                         refinedValue(operator, value))]
              ELSE /\ filter' =
                        IF known
                          THEN Put(created, field,
                                   assignOperator(target, mongoOperatorMap[operator],
                                                  refinedValue(operator, value)))
                          ELSE created
                   /\ UNCHANGED objects
        /\ UNCHANGED <<options, populatedFields, session, sort, projection,
                       aggregationPipeline, page, pageSize, issued, observed,
                   native, promise>>

\* whereId(_id) that goes through the operator table: _id = { $eq: _id }
whereIdAsOperator(id) ==
    /\ Called("whereId", <<id>>)
    /\ filter' = Put(filter, "_id", "$eq" :> Ref(id))
    /\ UNCHANGED <<options, populatedFields, session, sort, projection,
                   aggregationPipeline, page, pageSize, objects, issued, observed,
                   native, promise>>

\* whereId(_id): this.filter._id = _id
whereId(id) ==
    /\ Called("whereId", <<id>>)
    /\ filter' = Put(filter, "_id", Ref(id))
    /\ UNCHANGED <<options, populatedFields, session, sort, projection,
                   aggregationPipeline, page, pageSize, objects, issued, observed,
                   native, promise>>

\* and(condition): this.filter.$and = condition
and(condition) ==
    /\ Called("and", <<condition>>)
    /\ filter' = Put(filter, "$and", condition)
    /\ UNCHANGED <<options, populatedFields, session, sort, projection,
                   aggregationPipeline, page, pageSize, objects, issued, observed,
                   native, promise>>

\* or(condition): this.filter.$or = condition
or(condition) ==
    /\ Called("or", <<condition>>)
    /\ filter' = Put(filter, "$or", condition)
    /\ UNCHANGED <<options, populatedFields, session, sort, projection,
                   aggregationPipeline, page, pageSize, objects, issued, observed,
                   native, promise>>

\* nor(conditions): this.filter.$nor = conditions
nor(conditions) ==
    /\ Called("nor", <<conditions>>)
    /\ filter' = Put(filter, "$nor", conditions)
    /\ UNCHANGED <<options, populatedFields, session, sort, projection,
                   aggregationPipeline, page, pageSize, objects, issued, observed,
                   native, promise>>

\* this.filter[field].$not = condition: the marker joins what the field holds
negatedInPlace(doc, field, condition) ==
    Put(doc, field,
        Put(IF field \in DOMAIN doc THEN doc[field] ELSE EmptyDoc, "$not", condition))

\* this.filter[field] = { $not: condition }
negated(doc, field, condition) == Put(doc, field, "$not" :> condition)

not(field, condition) ==
    /\ Called("not", <<field, condition>>)
    /\ filter' = negated(filter, field, condition)
    /\ UNCHANGED <<options, populatedFields, session, sort, projection,
                   aggregationPipeline, page, pageSize, objects, issued, observed,
                   native, promise>>

(***************************************************************************)
(* Query options accumulator.                                              *)
(***************************************************************************)
\* limit(limit): this.options.limit = limit
limit(n) ==
    /\ Called("limit", <<n>>)
    /\ options' = Put(options, "limit", n)
    /\ UNCHANGED <<filter, populatedFields, session, sort, projection,
                   aggregationPipeline, page, pageSize, objects, issued, observed,
                   native, promise>>

\* skip(skip): this.options.skip = skip
skip(n) ==
    /\ Called("skip", <<n>>)
    /\ options' = Put(options, "skip", n)
    /\ UNCHANGED <<filter, populatedFields, session, sort, projection,
                   aggregationPipeline, page, pageSize, objects, issued, observed,
                   native, promise>>

\* the names not yet in the array are pushed: duplicates are dropped
pushAllDistinct(array, items) ==
    array \o SelectSeq(items, LAMBDA item : \A i \in 1..Len(array) : array[i] # item)

\* this.populatedFields.push(...fields)
pushAll(array, items) == array \o items

populate(fields) ==
    /\ Called("populate", <<fields>>)
    /\ populatedFields' = pushAll(populatedFields, fields)
    /\ UNCHANGED <<filter, options, session, sort, projection,
                   aggregationPipeline, page, pageSize, objects, issued, observed,
                   native, promise>>

\* sortBy(sort): this.sort = sort
sortBy(spec) ==
    /\ Called("sortBy", <<spec>>)
    /\ sort' = spec
    /\ UNCHANGED <<filter, options, populatedFields, session, projection,
                   aggregationPipeline, page, pageSize, objects, issued, observed,
                   native, promise>>

\* select(projection): this.projection = projection
select(proj) ==
    /\ Called("select", <<proj>>)
    /\ projection' = proj
    /\ UNCHANGED <<filter, options, populatedFields, session, sort,
                   aggregationPipeline, page, pageSize, objects, issued, observed,
                   native, promise>>

\* this.aggregationPipeline.push(stage)
push(array, item) == Append(array, item)

aggregate(stage) ==
    /\ Called("aggregate", <<stage>>)
    /\ aggregationPipeline' = push(aggregationPipeline, stage)
    /\ UNCHANGED <<filter, options, populatedFields, session, sort, projection,
                   page, pageSize, objects, issued, observed,
                   native, promise>>

\* skip = page * pageSize: the page taken as zero-based
paginatedFromZero(opts, p, size) ==
    Put(Put(opts, "skip", p * size), "limit", size)

\* the options paginate(page, pageSize) leaves: skip is written, then limit
paginated(opts, p, size) ==
    Put(Put(opts, "skip", (p - 1) * size), "limit", size)

paginate(p, size) ==
    /\ Called("paginate", <<p, size>>)
    /\ page' = p
    /\ pageSize' = size
    /\ options' = paginated(options, p, size)
    /\ UNCHANGED <<filter, populatedFields, session, sort, projection,
                   aggregationPipeline, objects, issued, observed,
                   native, promise>>

\* setSession(session): this.session = session
setSession(handle) ==
    /\ Called("setSession", <<handle>>)
    /\ session' = handle
    /\ UNCHANGED <<filter, options, populatedFields, sort, projection,
                   aggregationPipeline, page, pageSize, objects, issued, observed,
                   native, promise>>

(***************************************************************************)
(* Execution dispatcher.                                                   *)
(*                                                                         *)
(* Each terminal operation is an async function: it returns a promise.     *)
(* The native call either throws synchronously or returns the driver's     *)
(* promise, which the collaborator settles later.  An error is a record of *)
(* its code, the names of the builder objects its context refers to, and   *)
(* the code of the error it was built from.                                *)
(***************************************************************************)
\* what the collaborator throws or rejects with
DriverError == [code |-> "DRIVER_ERROR", context |-> {}, wraps |-> "none"]

\* new MongridError(`...${error.message}`, code, context)
MongridError(code, context, error) ==
    [code |-> code, context |-> context, wraps |-> error.code]

Null == [null |-> TRUE]

Pending(op) == [op |-> op, state |-> "pending"]

Resolved(op, value) == [op |-> op, state |-> "resolved", value |-> value]

Rejected(op, error) == [op |-> op, state |-> "rejected", error |-> error]

\* countDocuments(this.filter): the session is left out
countOperationOutsideSession ==
    [api |-> "countDocuments", filter |-> filter,
     options |-> [session |-> "null"]]

\* countDocuments(this.filter, { session: this.session! })
countOperation ==
    [api |-> "countDocuments", filter |-> filter,
     options |-> [session |-> session]]

\* find(this.filter, { ...this.options, session: this.session! }).explain(verbosity)
explainOperation(verbosity) ==
    [api |-> "find.explain", filter |-> filter,
     options |-> Put(options, "session", session), verbosity |-> verbosity]

\* aggregate<T>(this.aggregationPipeline, { session: this.session! }).toArray()
aggregateOperation ==
    [api |-> "aggregate", pipeline |-> aggregationPipeline,
     options |-> [session |-> session]]

\* this.model.find(this.filter, { ...this.options, sort, projection, session },
\*                 this.populatedFields)
findOperation ==
    [api |-> "model.find", filter |-> filter,
     options |-> Put(Put(Put(options, "sort", sort), "projection", projection),
                     "session", session),
     populatedFields |-> populatedFields]

\* the pipeline taken only when it holds more than one stage
executeOperationOverOne ==
    IF Len(aggregationPipeline) > 1 THEN aggregateOperation ELSE findOperation

\* the branch of execute(): the pipeline when it holds a stage, else the find
executeOperation ==
    IF Len(aggregationPipeline) > 0 THEN aggregateOperation ELSE findOperation

\* An async function whose body is  try { return call() } catch { throw wrap }:
\* a synchronous throw of the call is caught and wrapped; a promise the call
\* returns is returned without await, so the function's promise takes that
\* promise's outcome as it is, a rejection included.
returnedWithoutAwait(op, outcome, code, context) ==
    CASE outcome.kind = "throws" ->
           Rejected(op, MongridError(code, context, outcome.error))
      [] outcome.kind = "rejects" -> Rejected(op, outcome.error)
      [] outcome.kind = "resolves" -> Resolved(op, outcome.value)

countOutcome(outcome) ==
    returnedWithoutAwait("count", outcome, "COUNT_ERROR", {"filter"})

explainOutcome(outcome) ==
    returnedWithoutAwait("explain", outcome, "EXPLAIN_ERROR", {"filter", "options"})

executeOutcome(outcome) ==
    returnedWithoutAwait("execute", outcome, "QUERY_EXECUTION_ERROR",
                         {"filter", "options", "populatedFields"})

\* results[1] || null: the index taken as one-based
secondOrNull(results) == IF Len(results) > 1 THEN results[2] ELSE Null

\* results[0] || null: an empty array reads undefined; a document is an
\* object, which is truthy
firstOrNull(results) == IF Len(results) > 0 THEN results[1] ELSE Null

\* executeOne(): const results = await this.execute() inside try / catch
executeOneOutcome(outcome) ==
    LET inner == executeOutcome(outcome)
    IN  IF inner.state = "resolved"
          THEN Resolved("executeOne", firstOrNull(inner.value))
          ELSE Rejected("executeOne",
                        MongridError("QUERY_EXECUTION_ERROR",
                                     {"filter", "options"}, inner.error))

outcomeOf(op, outcome) ==
    CASE op = "count" -> countOutcome(outcome)
      [] op = "explain" -> explainOutcome(outcome)
      [] op = "execute" -> executeOutcome(outcome)
      [] op = "executeOne" -> executeOneOutcome(outcome)

\* the native call throws synchronously, or returns a promise still pending
invoked(throws) ==
    IF throws THEN [kind |-> "throws", error |-> DriverError]
              ELSE [kind |-> "pending"]

\* the promise a terminal call returns: settled at once when the native call
\* throws, pending on the collaborator otherwise
returned(op, throws) ==
    IF throws THEN outcomeOf(op, invoked(throws)) ELSE Pending(op)

\* the caller awaits one terminal operation before it starts the next
Settled == promise.state # "pending"

count(throws) ==
    /\ Settled
    /\ Called("count", <<>>)
    /\ issued' = <<countOperation>>
    /\ native' = invoked(throws)
    /\ observed' = <<>>
    /\ promise' = returned("count", throws)
    /\ UNCHANGED <<filter, options, populatedFields, session, sort, projection,
                   aggregationPipeline, page, pageSize, objects>>

explain(verbosity, throws) ==
    /\ Settled
    /\ Called("explain", <<verbosity>>)
    /\ issued' = <<explainOperation(verbosity)>>
    /\ native' = invoked(throws)
    /\ observed' = <<>>
    /\ promise' = returned("explain", throws)
    /\ UNCHANGED <<filter, options, populatedFields, session, sort, projection,
                   aggregationPipeline, page, pageSize, objects>>

\* execute() that consumes the pipeline it has run
executeAndReset(throws) ==
    /\ Settled
    /\ Called("execute", <<>>)
    /\ issued' = <<executeOperation>>
    /\ native' = invoked(throws)
    /\ observed' = <<>>
    /\ promise' = returned("execute", throws)
    /\ aggregationPipeline' = <<>>
    /\ UNCHANGED <<filter, options, populatedFields, session, sort, projection,
                   page, pageSize, objects>>

execute(throws) ==
    /\ Settled
    /\ Called("execute", <<>>)
    /\ issued' = <<executeOperation>>
    /\ native' = invoked(throws)
    /\ observed' = <<>>
    /\ promise' = returned("execute", throws)
    /\ UNCHANGED <<filter, options, populatedFields, session, sort, projection,
                   aggregationPipeline, page, pageSize, objects>>

\* executeOne() calls execute(), which issues the operation
executeOne(throws) ==
    /\ Settled
    /\ Called("executeOne", <<>>)
    /\ issued' = <<executeOperation>>
    /\ native' = invoked(throws)
    /\ observed' = <<>>
    /\ promise' = returned("executeOne", throws)
    /\ UNCHANGED <<filter, options, populatedFields, session, sort, projection,
                   aggregationPipeline, page, pageSize, objects>>

\* the shapes the collaborator resolves an operation with
ResultsOf(api) ==
    CASE api = "countDocuments" -> {0, 2}
      [] api = "find.explain" -> {[queryPlanner |-> "COLLSCAN"]}
      [] OTHER -> {<<>>, <<[name |-> "ann"]>>, <<[name |-> "bob"], [name |-> "ann"]>>}

\* The arguments as the collaborator finds them when it reads them: the
\* filter, the populated fields and the pipeline are the builder's own objects,
\* handed over by reference; the options are an object made for the call.
observedOperation(operation) ==
    CASE operation.api = "countDocuments" ->
           [operation EXCEPT !.filter = filter]
      [] operation.api = "find.explain" ->
           [operation EXCEPT !.filter = filter]
      [] operation.api = "aggregate" ->
           [operation EXCEPT !.pipeline = aggregationPipeline]
      [] operation.api = "model.find" ->
           [operation EXCEPT !.filter = filter,
                             !.populatedFields = populatedFields]

\* the collaborator reads the arguments of the operation in flight, at the
\* call or at any later time before the operation settles
reads ==
    /\ promise.state = "pending"
    /\ observed = <<>>
    /\ observed' = <<observedOperation(issued[1])>>
    /\ UNCHANGED <<filter, options, populatedFields, session, sort, projection,
                   aggregationPipeline, page, pageSize, objects, issued, native,
                   promise, trace>>

\* the collaborator resolves the pending operation, whose arguments it has read
resolves ==
    /\ promise.state = "pending"
    /\ observed # <<>>
    /\ \E value \in ResultsOf(issued[1].api) :
          native' = [kind |-> "resolves", value |-> value]
    /\ promise' = outcomeOf(promise.op, native')
    /\ UNCHANGED <<filter, options, populatedFields, session, sort, projection,
                   aggregationPipeline, page, pageSize, objects, issued, observed,
                   trace>>

\* the collaborator rejects the pending operation
rejects ==
    /\ promise.state = "pending"
    /\ native' = [kind |-> "rejects", error |-> DriverError]
    /\ promise' = outcomeOf(promise.op, native')
    /\ UNCHANGED <<filter, options, populatedFields, session, sort, projection,
                   aggregationPipeline, page, pageSize, objects, issued, observed,
                   trace>>

(***************************************************************************)
(* The whole builder: every method and the collaborator.                   *)
(***************************************************************************)
Sessions == {"S1", "S2"}

Stages == {[stage |-> "$match"], [stage |-> "$group"]}

Next ==
    \/ \E operator \in {"greaterThanOrEqual", "between"} : where("age", operator, 18)
    \/ whereId("X1")
    \/ and(<<"age" :> ("$gt" :> 30)>>)
    \/ or(<<"age" :> ("$gt" :> 30)>>)
    \/ nor(<<"age" :> ("$gt" :> 30)>>)
    \/ \E condition \in Conditions : not("age", condition)
    \/ limit(5)
    \/ skip(7)
    \/ \E fields \in {<<"author">>, <<"tags", "author">>} : populate(fields)
    \/ sortBy([age |-> -1])
    \/ select([name |-> 1])
    \/ \E stage \in Stages : aggregate(stage)
    \/ paginate(3, 10)
    \/ \E handle \in Sessions : setSession(handle)
    \/ \E throws \in BOOLEAN : count(throws)
    \/ \E throws \in BOOLEAN : explain("queryPlanner", throws)
    \/ \E throws \in BOOLEAN : execute(throws)
    \/ \E throws \in BOOLEAN : executeOne(throws)
    \/ reads
    \/ resolves
    \/ rejects

Spec == Init /\ [][Next]_vars

\* the collaborator does not stall: an operation in flight is read and settled
SpecFair == Spec /\ WF_vars(reads) /\ WF_vars(resolves \/ rejects)

(***************************************************************************)
(* The query options accumulator alone, over two values of every input.    *)
(***************************************************************************)
Limits == {5, 20}

Skips == {0, 40}

Pages == {1, 3}

PageSizes == {10, 20}

NextOptions ==
    \/ \E n \in Limits : limit(n)
    \/ \E n \in Skips : skip(n)
    \/ \E fields \in {<<"author">>, <<"tags", "author">>} : populate(fields)
    \/ \E spec \in {[age |-> -1], [age |-> 1]} : sortBy(spec)
    \/ \E proj \in {[name |-> 1], [name |-> 0]} : select(proj)
    \/ \E stage \in Stages : aggregate(stage)
    \/ \E p \in Pages, size \in PageSizes : paginate(p, size)
    \/ \E handle \in Sessions : setSession(handle)

SpecOptions == Init /\ [][NextOptions]_vars

(***************************************************************************)
(* The predicate accumulator alone, over every operator of the table.      *)
(***************************************************************************)
NextPredicate ==
    \/ \E field \in Fields, operator \in ComparisonOperators \cup UnknownOperators :
          \E value \in ValuesFor(operator) : where(field, operator, value)
    \/ \E id \in ObjectIds : whereId(id)
    \/ \E condition \in ConditionLists : and(condition)
    \/ \E condition \in ConditionLists : or(condition)
    \/ \E conditions \in ConditionLists : nor(conditions)
    \/ \E field \in Fields, condition \in Conditions : not(field, condition)

SpecPredicate == Init /\ [][NextPredicate]_vars

(***************************************************************************)
(* What the specification says, in its own words: the operator table of    *)
(* section 3 and the shape of the value each operator stores.              *)
(***************************************************************************)
NativeToken(operator) ==
    CASE operator = "equal" -> "$eq"
      [] operator = "notEqual" -> "$ne"
      [] operator = "greaterThan" -> "$gt"
      [] operator = "greaterThanOrEqual" -> "$gte"
      [] operator = "lessThan" -> "$lt"
      [] operator = "lessThanOrEqual" -> "$lte"
      [] operator = "in" -> "$in"
      [] operator = "notIn" -> "$nin"
      [] operator = "exists" -> "$exists"
      [] operator = "regex" -> "$regex"
      [] operator = "text" -> "$text"

ShapedValue(operator, value) ==
    IF operator = "text" THEN "$search" :> value ELSE value

NativeTokens == {NativeToken(operator) : operator \in ComparisonOperators}

(***************************************************************************)
(* Reading the history.                                                    *)
(***************************************************************************)
Calls == 1..Len(trace)

\* the call that led to the state after a step
LastCall == trace'[Len(trace')]

\* a step in which a method was called
Step == Len(trace') = Len(trace) + 1

IsWhereOn(call, field) == call.name = "where" /\ call.args[1] = field

\* the call writes the field's key of the filter
TouchesField(call, field) ==
    \/ call.name \in {"where", "not"} /\ call.args[1] = field
    \/ call.name = "whereId" /\ field = "_id"

\* the field has been written by byField calls with recognized operators only
OnlyByField(field) ==
    /\ \E i \in Calls : TouchesField(trace[i], field)
    /\ \A i \in Calls :
          TouchesField(trace[i], field) =>
            IsWhereOn(trace[i], field) /\ trace[i].args[2] \in ComparisonOperators

OperatorsCalled(field) ==
    {trace[i].args[2] : i \in {j \in Calls : IsWhereOn(trace[j], field)}}

\* the value of the most recent byField call on the field with the operator
MostRecentValue(field, operator) ==
    LET I == {i \in Calls : IsWhereOn(trace[i], field) /\ trace[i].args[2] = operator}
        m == CHOOSE i \in I : \A j \in I : j <= i
    IN  trace[m].args[3]

\* C1: after byField calls with recognized operators on a field that started
\* unset, the field holds one operator sub-document whose keys are the native
\* tokens of exactly the operators called, each with the (shaped) value of
\* that operator's most recent call.
C1_ByFieldMerges ==
    \A field \in Fields :
      OnlyByField(field) =>
        /\ field \in DOMAIN filter
        /\ DOMAIN filter[field] =
             {NativeToken(operator) : operator \in OperatorsCalled(field)}
        /\ \A operator \in OperatorsCalled(field) :
             filter[field][NativeToken(operator)] =
               ShapedValue(operator, MostRecentValue(field, operator))

\* greaterThanOrEqual 65, lessThan 65, greaterThanOrEqual 18 on age
C1_Witness ==
    /\ Len(trace) = 3
    /\ OnlyByField("age")
    /\ trace[1].args[2] = "greaterThanOrEqual" /\ trace[1].args[3] = 65
    /\ trace[2].args[2] = "lessThan" /\ trace[2].args[3] = 65
    /\ trace[3].args[2] = "greaterThanOrEqual" /\ trace[3].args[3] = 18
    /\ filter = "age" :> (("$gte" :> 18) @@ ("$lt" :> 65))

\* C2: byField with an operator that is not in the mapping table leaves the
\* filter document exactly as it was, whatever the state before the call.
C2_UnknownOperatorNoOp ==
    [][(Step /\ LastCall.name = "where"
             /\ LastCall.args[2] \notin ComparisonOperators)
         => filter' = filter]_vars

\* C3: byField with a supported operator on a field that is unset leaves under
\* the field a sub-document with the one key that is the operator's native
\* token, holding the value unchanged, or {$search: value} for text.
C3_SingleOperatorDocument ==
    [][(Step /\ LastCall.name = "where"
             /\ LastCall.args[2] \in ComparisonOperators
             /\ LastCall.args[1] \notin DOMAIN filter)
         => /\ LastCall.args[1] \in DOMAIN filter'
            /\ filter'[LastCall.args[1]] =
                 NativeToken(LastCall.args[2])
                   :> ShapedValue(LastCall.args[2], LastCall.args[3])]_vars

\* text "mongo" on age, the first call
C3_Witness ==
    /\ Len(trace) = 1
    /\ IsWhereOn(trace[1], "age") /\ trace[1].args[2] = "text"
    /\ filter = "age" :> ("$text" :> ("$search" :> "mongo"))

\* the field holds byField operator constraints
HoldsOperators(doc, field) ==
    /\ field \in DOMAIN doc
    /\ DOMAIN doc[field] \cap NativeTokens # {}

\* C4: not(field, subFilter) on a field that holds byField operators replaces
\* the field's value with {$not: subFilter}: no earlier token remains, and
\* every other key of the filter keeps its value.
C4_NotOverwrites ==
    [][(Step /\ LastCall.name = "not" /\ HoldsOperators(filter, LastCall.args[1]))
         => /\ DOMAIN filter' = DOMAIN filter
            /\ filter'[LastCall.args[1]] = "$not" :> LastCall.args[2]
            /\ \A key \in DOMAIN filter \ {LastCall.args[1]} :
                 filter'[key] = filter[key]]_vars

\* two operators on age, $and set, then not on age
C4_Witness ==
    /\ Len(trace) = 3
    /\ IsWhereOn(trace[1], "age") /\ trace[1].args[2] = "greaterThanOrEqual"
    /\ trace[2].name = "and"
    /\ trace[3].name = "not" /\ trace[3].args[1] = "age"
    /\ DOMAIN filter = {"age", "$and"}
    /\ filter["age"] = "$not" :> trace[3].args[2]

\* the calls that set an option: the method of the option's name, and paginate
SettersOf(key) ==
    {i \in Calls : trace[i].name = key \/ trace[i].name = "paginate"}

\* the value a call gives the option
GivenBy(call, key) ==
    IF call.name = "paginate"
      THEN IF key = "limit" THEN call.args[2]
                            ELSE (call.args[1] - 1) * call.args[2]
      ELSE call.args[1]

\* C5: the limit option is the value of the most recent of limit(n) and
\* paginate(p, s), the skip option that of the most recent of skip(n) and
\* paginate(p, s), which gives (p - 1) * s; an option no call has set is unset.
C5_LastCallWins ==
    \A key \in {"limit", "skip"} :
      IF SettersOf(key) = {}
        THEN key \notin DOMAIN options
        ELSE LET m == CHOOSE i \in SettersOf(key) : \A j \in SettersOf(key) : j <= i
             IN  key \in DOMAIN options /\ options[key] = GivenBy(trace[m], key)

\* skip(40), paginate(3, 10), limit(5): the skip of paginate stays, limit is 5
C5_Witness ==
    /\ Len(trace) = 3
    /\ trace[1].name = "skip" /\ trace[1].args[1] = 40
    /\ trace[2].name = "paginate" /\ trace[2].args = <<3, 10>>
    /\ trace[3].name = "limit" /\ trace[3].args[1] = 5
    /\ options = [skip |-> 20, limit |-> 5]

\* the last call made on the builder is execute(), directly or from executeOne():
\* the builder is as it was when execute() ran
ExecuteJustCalled ==
    /\ Len(trace) > 0
    /\ trace[Len(trace)].name \in {"execute", "executeOne"}

\* the stages passed to aggregate(stage), in call order
StagesInCallOrder ==
    LET calls == SelectSeq(trace, LAMBDA call : call.name = "aggregate")
    IN  [i \in 1..Len(calls) |-> calls[i].args[1]]

RECURSIVE NamesPopulatedUpTo(_)
NamesPopulatedUpTo(n) ==
    IF n = 0 THEN <<>>
    ELSE IF trace[n].name = "populate"
           THEN NamesPopulatedUpTo(n - 1) \o trace[n].args[1]
           ELSE NamesPopulatedUpTo(n - 1)

\* the names passed to populate(...fields), in call order, duplicates kept
NamesPopulated == NamesPopulatedUpTo(Len(trace))

\* C6: execute() with a pipeline of at least one stage issues one operation,
\* the aggregate of the stages in the order of the aggregate(stage) calls under
\* the current session; no find is issued and nothing of the filter, sort,
\* projection, limit, skip or populated fields is part of the operation.
C6_PipelineTakesPrecedence ==
    (ExecuteJustCalled /\ Len(aggregationPipeline) > 0) =>
        issued = <<[api |-> "aggregate", pipeline |-> StagesInCallOrder,
                    options |-> [session |-> session]]>>

\* aggregate($group), aggregate($match), execute()
C6_Witness ==
    /\ Len(trace) = 3
    /\ trace[3].name = "execute"
    /\ StagesInCallOrder = <<[stage |-> "$group"], [stage |-> "$match"]>>
    /\ issued[1].api = "aggregate"
    /\ issued[1].pipeline = <<[stage |-> "$group"], [stage |-> "$match"]>>

\* { ...options, sort, projection, session } as the specification words it
FindOptions ==
    [key \in (DOMAIN options) \cup {"sort", "projection", "session"} |->
        CASE key = "sort" -> sort
          [] key = "projection" -> projection
          [] key = "session" -> session
          [] OTHER -> options[key]]

\* C7: execute() with an empty pipeline issues one operation, model.find with
\* the current filter, the current limit and skip with the current sort,
\* projection and session, and the names passed to populate in call order,
\* duplicates kept; no aggregate is issued.
C7_FindBranch ==
    (ExecuteJustCalled /\ Len(aggregationPipeline) = 0) =>
        issued = <<[api |-> "model.find", filter |-> filter,
                    options |-> FindOptions,
                    populatedFields |-> NamesPopulated]>>

\* populate("author"), populate("tags", "author"), execute()
C7_Witness ==
    /\ Len(trace) = 3
    /\ trace[3].name = "execute"
    /\ issued[1].api = "model.find"
    /\ issued[1].populatedFields = <<"author", "tags", "author">>

\* C8: when execute() produces a sequence, executeOne() resolves, with the
\* first element of a sequence that has one and with null for the empty one.
C8_FirstOrNull ==
    (promise.op = "executeOne" /\ native.kind = "resolves") =>
        /\ promise.state = "resolved"
        /\ promise.value =
             IF Len(native.value) = 0 THEN Null ELSE native.value[1]

\* executeOne() on an empty result set
C8_Witness ==
    /\ promise.op = "executeOne"
    /\ native.kind = "resolves"
    /\ native.value = <<>>
    /\ promise.state = "resolved"
    /\ promise.value = Null

\* C9: when the collaborator fails during execute(), by a throw or by the
\* rejection of the promise it returned, execute() rejects with a
\* QUERY_EXECUTION_ERROR that carries filter, options and populatedFields.
C9_ExecuteFailureWrapped ==
    (promise.op = "execute" /\ native.kind \in {"throws", "rejects"}) =>
        /\ promise.state = "rejected"
        /\ promise.error.code = "QUERY_EXECUTION_ERROR"
        /\ promise.error.context = {"filter", "options", "populatedFields"}

\* C10: when countDocuments fails during count(), by a throw or by the
\* rejection of the promise it returned, count() rejects with a COUNT_ERROR
\* that carries the filter.
C10_CountFailureWrapped ==
    (promise.op = "count" /\ native.kind \in {"throws", "rejects"}) =>
        /\ promise.state = "rejected"
        /\ promise.error.code = "COUNT_ERROR"
        /\ promise.error.context = {"filter"}

\* C11: an error executeOne() rejects with is a QUERY_EXECUTION_ERROR whose
\* context carries the filter, the options and the populated fields, the
\* context of an execute() failure.
C11_ExecuteOneErrorContext ==
    (promise.op = "executeOne" /\ promise.state = "rejected") =>
        /\ promise.error.code = "QUERY_EXECUTION_ERROR"
        /\ promise.error.context = {"filter", "options", "populatedFields"}

\* the codes of the typed errors, one per terminal operation
TypedCode(op) ==
    CASE op = "count" -> "COUNT_ERROR"
      [] op = "explain" -> "EXPLAIN_ERROR"
      [] op \in {"execute", "executeOne"} -> "QUERY_EXECUTION_ERROR"

\* C12: an error a terminal operation rejects with is the operation's typed
\* wrapper, built from the collaborator's own error: the failure is wrapped
\* once, never left bare and never wrapped a second time.
C12_WrappedExactlyOnce ==
    promise.state = "rejected" =>
        /\ promise.error.code = TypedCode(promise.op)
        /\ promise.error.wraps = DriverError.code

\* the last call made on the builder is a terminal operation
TerminalJustCalled ==
    /\ Len(trace) > 0
    /\ trace[Len(trace)].name \in {"count", "explain", "execute", "executeOne"}

\* the handle of the most recent setSession call, null when there is none
MostRecentSession ==
    LET I == {i \in Calls : trace[i].name = "setSession"}
    IN  IF I = {} THEN "null"
        ELSE trace[CHOOSE i \in I : \A j \in I : j <= i].args[1]

\* C13: the builder holds the handle of the most recent setSession call, null
\* before the first, and every native operation a terminal operation issues
\* carries that handle as its session.
C13_SessionForwarded ==
    /\ session = MostRecentSession
    /\ TerminalJustCalled =>
         \A i \in 1..Len(issued) : issued[i].options.session = MostRecentSession

\* setSession(S1), setSession(S2), count(): the count runs under S2
C13_Witness ==
    /\ Len(trace) = 3
    /\ trace[1].name = "setSession" /\ trace[1].args[1] = "S1"
    /\ trace[2].name = "setSession" /\ trace[2].args[1] = "S2"
    /\ trace[3].name = "count"
    /\ Len(issued) = 1
    /\ issued[1].options.session = "S2"

\* C14: what the collaborator observes of an operation in flight (its filter,
\* options, populated fields, pipeline) is what the terminal operation issued,
\* the accumulator state at the call, whatever builder method is called between
\* the terminal call and the collaborator's reading.
C14_InFlightOperationSnapshot ==
    observed # <<>> => observed = issued

Terminals == {"count", "explain", "execute", "executeOne"}

\* the step is a call of a terminal operation
TerminalStep == Step /\ LastCall.name \in Terminals

\* the step is the settling of an operation in flight, or the collaborator's
\* reading of it: no method of the builder is called
CollaboratorStep == trace' = trace

\* the step calls the terminal operation that the previous call called
SameTerminalAgain ==
    /\ TerminalStep
    /\ Len(trace) > 0
    /\ trace[Len(trace)].name = LastCall.name
    /\ trace[Len(trace)].args = LastCall.args

\* C15: a terminal operation, from its call to its success or failure, leaves
\* the builder's state (filter, options, sort, projection, populated fields,
\* pipeline, pagination, session) as it was, and the same terminal operation
\* called twice in a row issues the same native operation both times.
C15_TerminalLeavesBuilder ==
    [][/\ (TerminalStep \/ CollaboratorStep) =>
            (builder' = builder /\ objects' = objects)
       /\ SameTerminalAgain => issued' = issued]_vars

\* aggregate(stage), execute(), execute(): the second call issues the
\* aggregation over the pipeline the first one left in place
C15_Witness ==
    /\ Len(trace) = 3
    /\ trace[1].name = "aggregate"
    /\ trace[2].name = "execute"
    /\ trace[3].name = "execute"
    /\ issued[1].api = "aggregate"
    /\ issued[1].pipeline = aggregationPipeline
    /\ aggregationPipeline # <<>>

\* the sort specification or projection an operation is issued with, the
\* empty document when the option is not passed
DocumentOption(operation, key) ==
    IF key \in DOMAIN operation.options THEN operation.options[key] ELSE EmptyDoc

\* C16: explain() explains the find that execute() would issue in the find
\* branch from the same builder state: the current filter, the current limit
\* and skip, the current sort specification and projection, and the current
\* session.
C16_ExplainMatchesFind ==
    (Len(trace) > 0 /\ trace[Len(trace)].name = "explain") =>
        /\ Len(issued) = 1
        /\ issued[1].api = "find.explain"
        /\ issued[1].filter = filter
        /\ \A key \in {"limit", "skip"} :
              /\ key \in DOMAIN issued[1].options <=> key \in DOMAIN options
              /\ key \in DOMAIN options => issued[1].options[key] = options[key]
        /\ issued[1].options.session = session
        /\ DocumentOption(issued[1], "sort") = sort
        /\ DocumentOption(issued[1], "projection") = projection

\* C17: byId(X) sets the filter's _id key to X itself, not to an operator
\* sub-document, in place of whatever _id held, and changes no other key of
\* the filter (nor X).
C17_ByIdSetsLiteral ==
    [][(Step /\ LastCall.name = "whereId") =>
          /\ DOMAIN filter' = DOMAIN filter \cup {"_id"}
          /\ filter'["_id"] = Ref(LastCall.args[1])
          /\ \A key \in DOMAIN filter \ {"_id"} : filter'[key] = filter[key]
          /\ objects' = objects]_vars

\* byField on _id and on age, then byId(X1): _id holds X1 in place of the
\* operator sub-document and age is kept
C17_Witness ==
    /\ Len(trace) = 3
    /\ IsWhereOn(trace[1], "_id") /\ trace[1].args[2] \in ComparisonOperators
    /\ IsWhereOn(trace[2], "age") /\ trace[2].args[2] \in ComparisonOperators
    /\ trace[3].name = "whereId" /\ trace[3].args[1] = "X1"
    /\ filter["_id"] = Ref("X1")
    /\ objects["X1"] = [oid |-> "X1"]
    /\ "age" \in DOMAIN filter

\* C19: whatever byId, byField and not calls were made, a field of the filter
\* holds a literal or an operator sub-document, never a literal into which
\* operator tokens were written: every value X given to byId is as the caller
\* made it, also after byField('_id', op, v).
C19_LiteralsUnmodified ==
    \A id \in ObjectIds : objects[id] = [oid |-> id]

\* the field holds the negation wrapper that not() stored
HoldsNegation(doc, field) ==
    /\ field \in DOMAIN doc
    /\ ~IsRef(doc[field])
    /\ "$not" \in DOMAIN doc[field]

\* C20: byField(f, op, v) with a recognized operator, called on a field that
\* holds the wrapper of not(f, c), merges into the wrapper: the value under f
\* then holds the $not marker with c and the native token of op with its
\* value, next to what it held.
C20_ByFieldMergesIntoNegation ==
    [][(/\ Step
        /\ LastCall.name = "where"
        /\ LastCall.args[2] \in ComparisonOperators
        /\ HoldsNegation(filter, LastCall.args[1])) =>
          LET f == LastCall.args[1]
              token == NativeToken(LastCall.args[2])
              stored == ShapedValue(LastCall.args[2], LastCall.args[3])
          IN  /\ DOMAIN filter' = DOMAIN filter
              /\ DOMAIN filter'[f] = DOMAIN filter[f] \cup {token}
              /\ filter'[f]["$not"] = filter[f]["$not"]
              /\ filter'[f][token] = stored
              /\ \A key \in DOMAIN filter[f] \ {token} :
                    filter'[f][key] = filter[f][key]]_vars

\* not(age, {$gt: 30}) then byField(age, lessThan, 65): {$not: {$gt: 30}, $lt: 65}
C20_Witness ==
    /\ Len(trace) = 2
    /\ trace[1].name = "not" /\ trace[1].args[1] = "age"
    /\ IsWhereOn(trace[2], "age") /\ trace[2].args[2] = "lessThan"
    /\ trace[2].args[3] = 65
    /\ DOMAIN filter["age"] = {"$not", "$lt"}
    /\ filter["age"]["$not"] = trace[1].args[2]
    /\ filter["age"]["$lt"] = 65

\* the shape a terminal operation is asked for: a count, a plan, a sequence
\* of documents, one document or null
RequestedShape(op, value) ==
    CASE op = "count" -> value \in Nat
      [] op = "explain" -> "queryPlanner" \in DOMAIN value
      [] op = "execute" -> DOMAIN value = 1..Len(value)
      [] op = "executeOne" -> value = Null \/ "name" \in DOMAIN value

\* once the collaborator's operation has settled the terminal operation has:
\* resolved with the requested shape when it succeeded, rejected with the
\* operation's typed error when it failed
SettlesAsCollaborator ==
    /\ native.kind = "resolves" =>
          /\ promise.state = "resolved"
          /\ RequestedShape(promise.op, promise.value)
    /\ native.kind \in {"rejects", "throws"} =>
          /\ promise.state = "rejected"
          /\ promise.error.code = TypedCode(promise.op)
    /\ promise.state = "resolved" => native.kind = "resolves"
    /\ promise.state = "rejected" => native.kind \in {"rejects", "throws"}

\* a terminal operation that is pending settles
EventuallySettles ==
    (promise.state = "pending") ~> (promise.state # "pending")

\* C18: with a fair collaborator every terminal operation called settles: it
\* resolves with the requested shape exactly when the collaborator's operation
\* succeeds, rejects with a typed error exactly when it fails, and is never
\* pending once the collaborator has settled.
C18_TerminalSettles ==
    /\ []SettlesAsCollaborator
    /\ EventuallySettles

====
